---- MODULE Spec2Model ----
(***************************************************************************)
(* Model of src/src/data/OrdinalMeta.ts: the ordinal registry             *)
(* (class OrdinalMeta) and the category tree (classes Node and Tree).      *)
(*                                                                         *)
(* JavaScript values are records [kind, v]:                                *)
(*   Str(k)    the string whose text is the decimal numeral of k           *)
(*   Num(k)    the integer number k                                        *)
(*   Frac(k)   the non-integer number k + 1/2                              *)
(*   NaN       the number NaN                                              *)
(*   Undefined undefined                                                   *)
(*   False     the boolean false                                           *)
(* so that the string "1" and the number 1 are different values.           *)
(* An optional field is None (absent) or Some(x).                          *)
(* Arrays are sequences; the JavaScript index i is position i + 1.         *)
(***************************************************************************)
EXTENDS Integers, Sequences, FiniteSets, TLC

Str(k) == [kind |-> "string", v |-> k]
Num(k) == [kind |-> "number", v |-> k]
Frac(k) == [kind |-> "fraction", v |-> k]
NaN == [kind |-> "NaN", v |-> 0]
Undefined == [kind |-> "undefined", v |-> 0]
False == [kind |-> "boolean", v |-> 0]

None == <<>>
Some(x) == <<x>>
IsSome(o) == o # <<>>
Get(o) == o[1]

\* zrender util: typeof value === 'string' / typeof value === 'number'
isString(x) == x.kind = "string"
isNumber(x) == x.kind \in {"number", "fraction", "NaN"}

\* arr[i] with a JavaScript (0-based) integer index; undefined out of range
At(arr, i) == IF i >= 0 /\ i < Len(arr) THEN arr[i + 1] ELSE Undefined

Range(s) == {s[i] : i \in 1..Len(s)}

(***************************************************************************)
(* Bounds                                                                  *)
(***************************************************************************)
\* longest initial categories list handed to the constructor
MaxInit == 2
\* number of collecting parseAndCollect calls (those made with needCollect set)
MaxCalls == 3

\* number of records in a nested description
MaxNodes == 4

\* number of registries constructed in one process
MaxRegistries == 2
\* longest categories list of a registry of a process that constructs several
MaxLen == 2

\* values of the records of a nested description
NodeValues == {Str(0), Str(1)}
\* category values an initial list is made of
InitValues == {Str(0), Num(0)}
\* arguments of getOrdinal and parseAndCollect
Inputs == {Str(0), Str(1), Num(0), Num(-1), Num(5), Frac(0)}

SeqsUpTo(S, n) == UNION {[1..k -> S] : k \in 0..n}

VARIABLES
    uidBase,            \* module-level counter
    categories,         \* OrdinalMeta.categories
    hierarchyCategories,\* OrdinalMeta.hierarchyCategories: None or Some("tree")
    _needCollect,       \* OrdinalMeta._needCollect
    _deduplication,     \* OrdinalMeta._deduplication
    _map,               \* OrdinalMeta._map: None until built, then Some(value -> index)
    uid,                \* OrdinalMeta.uid
    pc,                 \* position of the caller
    call,               \* the last call made on the registry: [op, arg]
    ret,                \* what the last call returned
    initial,            \* the categories list the constructor was given
    mapBuiltAt,         \* None, or Some(length of categories when _map was built)
    log,                \* the collecting parseAndCollect calls so far: [arg, ret]
    twin,               \* a second registry built from the same options: [categories, _map, ret]
    extra,              \* whether the twin has received its extra getOrdinal call
    raw,                \* the records of option.data by identity: [value, children, index]
    data,               \* option.data: the top-level records
    deepestRawValue,    \* createByAxisModel's deepestRawValue
    nodes,              \* the Node objects by identity: [children, parent, level, value, leafIndex]
    rootNodes,          \* Tree.rootNodes
    leafNodes,          \* Tree.leafNodes
    treeCall,           \* the last call made on the tree: [op, arg, ret]
    registries          \* the registries of a process that constructs several, in creation order

registryVars == <<uidBase, categories, hierarchyCategories, _needCollect,
                  _deduplication, _map, uid>>
callVars == <<call, ret, initial, mapBuiltAt, log>>
twinVars == <<twin, extra>>
treeVars == <<raw, data, deepestRawValue, nodes, rootNodes, leafNodes>>
otherVars == <<treeCall, registries>>
vars == <<registryVars, pc, callVars, twinVars, treeVars, otherVars>>

\* the registry object, as the methods see it
this == [categories |-> categories, _map |-> _map,
         _needCollect |-> _needCollect, _deduplication |-> _deduplication]

\* the twin registry: same flags, its own categories and _map
thisTwin == [categories |-> twin.categories, _map |-> twin._map,
             _needCollect |-> _needCollect, _deduplication |-> _deduplication]

\* createHashMap storing 1-based positions
createHashMapOneBased(arr) ==
    [x \in Range(arr) |->
        CHOOSE i \in 1..Len(arr) :
            /\ arr[i] = x
            /\ \A j \in 1..Len(arr) : arr[j] = x => j <= i]

\* createHashMap(arr) of zrender: each(arr, (value, key) => map.set(value, key)),
\* in array order, so a repeated value keeps the index of its last occurrence
createHashMap(arr) ==
    [x \in Range(arr) |->
        CHOOSE i \in 0..(Len(arr) - 1) :
            /\ arr[i + 1] = x
            /\ \A j \in 0..(Len(arr) - 1) : arr[j + 1] = x => j <= i]

\* HashMap.get: the stored index, or undefined
mapGet(m, key) == IF key \in DOMAIN m THEN Num(m[key]) ELSE Undefined

\* HashMap.set that stores nothing
mapSetLost(m, key, value) == m

\* HashMap.set that stores the length after the append
mapSetNext(m, key, value) ==
    [x \in (DOMAIN m) \cup {key} |-> IF x = key THEN value + 1 ELSE m[x]]

\* HashMap.set
mapSet(m, key, value) ==
    [x \in (DOMAIN m) \cup {key} |-> IF x = key THEN value ELSE m[x]]

\* _getOrCreateMap that takes an empty map for a missing one
getOrCreateMapIfEmpty(r) ==
    IF IsSome(r._map) /\ DOMAIN Get(r._map) # {}
    THEN Get(r._map) ELSE createHashMap(r.categories)

\* _getOrCreateMap: this._map || (this._map = createHashMap(this.categories))
getOrCreateMap(r) == IF IsSome(r._map) THEN Get(r._map) ELSE createHashMap(r.categories)

\* getOrdinal(category): the fields it leaves behind and what it returns
getOrdinal(r, category) ==
    LET m == getOrCreateMap(r)
    IN  [categories |-> r.categories, _map |-> Some(m), ret |-> mapGet(m, category)]

\* the pass-through test with the flag inverted
isPassThroughInverted(r, category) == ~isString(category) /\ r._needCollect

\* if (!isString(category) && !needCollect)
isPassThrough(r, category) == ~isString(category) /\ ~r._needCollect

\* the append-only test with the negation of the deduplication flag lost
isAppendOnlyInverted(r) == r._needCollect /\ r._deduplication

\* if (needCollect && !this._deduplication)
isAppendOnly(r) == r._needCollect /\ ~r._deduplication

\* an append that writes the category at index 0 and shifts the list
appendCategoryFront(cats, category) == <<category>> \o cats

\* index = this.categories.length; this.categories[index] = category
appendCategory(cats, category) == Append(cats, category)

\* parseAndCollect(category): the fields it leaves behind and what it returns
parseAndCollect(r, category) ==
    IF isPassThrough(r, category)
    THEN [categories |-> r.categories, _map |-> r._map, ret |-> category]
    ELSE IF isAppendOnly(r)
    THEN [categories |-> appendCategory(r.categories, category), _map |-> r._map,
          ret |-> Num(Len(r.categories))]
    ELSE LET m == getOrCreateMap(r)
             index == mapGet(m, category)
         IN  IF index = Undefined
             THEN IF r._needCollect
                  THEN [categories |-> appendCategory(r.categories, category),
                        _map |-> Some(mapSet(m, category, Len(r.categories))),
                        ret |-> Num(Len(r.categories))]
                  ELSE [categories |-> r.categories, _map |-> Some(m), ret |-> NaN]
             ELSE [categories |-> r.categories, _map |-> Some(m), ret |-> index]

\* a constructor that reads the counter without incrementing it
OrdinalMetaNoIncrement(opt, base) ==
    [categories |-> opt.categories,
     hierarchyCategories |-> opt.hierarchyCategories,
     _needCollect |-> opt.needCollect,
     _deduplication |-> opt.deduplication,
     _map |-> None,
     uidBase |-> base,
     uid |-> base + 1]

\* new OrdinalMeta(opt) when the counter stands at base
OrdinalMeta(opt, base) ==
    [categories |-> opt.categories,
     hierarchyCategories |-> opt.hierarchyCategories,
     _needCollect |-> opt.needCollect,
     _deduplication |-> opt.deduplication,
     _map |-> None,
     uidBase |-> base + 1,
     uid |-> base + 1]

\* nothing has been called yet
NoCalls ==
    /\ call = [op |-> "new", arg |-> Undefined]
    /\ ret = Undefined
    /\ mapBuiltAt = None
    /\ log = <<>>
    /\ extra = FALSE
    /\ treeCall = [op |-> "none", arg |-> Undefined, ret |-> None]
    /\ registries = <<>>

\* no option.data, no tree
NoTree ==
    /\ raw = <<>>
    /\ data = <<>>
    /\ deepestRawValue = <<>>
    /\ nodes = <<>>
    /\ rootNodes = <<>>
    /\ leafNodes = <<>>

\* the first registry of the process, constructed directly from any options
Init ==
    /\ \E cats \in SeqsUpTo(InitValues, MaxInit), nc \in BOOLEAN, dd \in BOOLEAN :
          LET o == OrdinalMeta([categories |-> cats, needCollect |-> nc,
                                deduplication |-> dd, hierarchyCategories |-> None], 0)
          IN  /\ categories = o.categories
              /\ hierarchyCategories = o.hierarchyCategories
              /\ _needCollect = o._needCollect
              /\ _deduplication = o._deduplication
              /\ _map = o._map
              /\ uidBase = o.uidBase
              /\ uid = o.uid
              /\ initial = o.categories
              /\ twin = [categories |-> o.categories, _map |-> o._map, ret |-> Undefined]
    /\ pc = "ready"
    /\ NoCalls
    /\ NoTree

\* the registry as a method call left it (out), and the record of the call
Called(op, category, out) ==
    /\ categories' = out.categories
    /\ _map' = out._map
    /\ ret' = out.ret
    /\ call' = [op |-> op, arg |-> category]
    /\ mapBuiltAt' = IF ~IsSome(_map) /\ IsSome(out._map)
                     THEN Some(Len(categories)) ELSE mapBuiltAt
    /\ UNCHANGED <<uidBase, hierarchyCategories, _needCollect, _deduplication,
                   uid, pc, initial, treeVars, otherVars>>

\* a call of getOrdinal(category)
GetOrdinalCall(category) ==
    /\ pc = "ready"
    /\ Called("getOrdinal", category, getOrdinal(this, category))
    /\ UNCHANGED log

\* a call of parseAndCollect(category)
ParseAndCollectCall(category) ==
    /\ pc = "ready"
    /\ _needCollect => Len(log) < MaxCalls
    /\ LET out == parseAndCollect(this, category)
       IN  /\ Called("parseAndCollect", category, out)
           /\ log' = IF _needCollect
                     THEN Append(log, [arg |-> category, ret |-> out.ret])
                     ELSE log

GetOrdinal(category) == GetOrdinalCall(category) /\ UNCHANGED twinVars

ParseAndCollect(category) == ParseAndCollectCall(category) /\ UNCHANGED twinVars

Next ==
    \/ \E c \in Inputs : GetOrdinal(c)
    \/ \E c \in Inputs : ParseAndCollect(c)

Spec == Init /\ [][Next]_vars

(***************************************************************************)
(* Two registries built from the same options receive the same calls; the  *)
(* twin receives one getOrdinal call more.                                 *)
(***************************************************************************)
TwinOut(out) == [categories |-> out.categories, _map |-> out._map, ret |-> out.ret]

TwinGetOrdinal(category) ==
    /\ GetOrdinalCall(category)
    /\ twin' = TwinOut(getOrdinal(thisTwin, category))
    /\ UNCHANGED extra

TwinParseAndCollect(category) ==
    /\ ParseAndCollectCall(category)
    /\ twin' = TwinOut(parseAndCollect(thisTwin, category))
    /\ UNCHANGED extra

ExtraGetOrdinal(category) ==
    /\ pc = "ready"
    /\ ~extra
    /\ extra' = TRUE
    /\ twin' = [TwinOut(getOrdinal(thisTwin, category)) EXCEPT !.ret = twin.ret]
    /\ UNCHANGED <<registryVars, pc, callVars, treeVars, otherVars>>

NextTwin ==
    \/ \E c \in Inputs : TwinGetOrdinal(c)
    \/ \E c \in Inputs : TwinParseAndCollect(c)
    \/ \E c \in Inputs : ExtraGetOrdinal(c)

SpecTwin == Init /\ [][NextTwin]_vars

(***************************************************************************)
(* The category tree and createByAxisModel with option.hierarchyAxis set.  *)
(* option.data is a forest of records {value, children?}; a record is      *)
(* identified by its position in raw, a Node by its position in nodes.     *)
(***************************************************************************)
RECURSIVE SortedSeq(_)
SortedSeq(S) ==
    IF S = {} THEN <<>>
    ELSE LET m == CHOOSE x \in S : \A y \in S : x <= y
         IN  <<m>> \o SortedSeq(S \ {m})

\* the records directly below record i, when lv gives the nesting depth of
\* the records listed in document order (i = 0: the top-level records)
KidsOf(lv, i) ==
    SortedSeq({j \in DOMAIN lv :
                 /\ j > i
                 /\ lv[j] = (IF i = 0 THEN 0 ELSE lv[i] + 1)
                 /\ \A k \in (i + 1)..(j - 1) : lv[k] >= lv[j]})

\* the nested descriptions of n records
RawForests(n) ==
    {[lv |-> lv, arr |-> arr, val |-> val] :
        lv \in {f \in [1..n -> 0..(n - 1)] :
                  /\ n > 0 => f[1] = 0
                  /\ \A i \in 2..n : f[i] <= f[i - 1] + 1},
        arr \in [1..n -> BOOLEAN],
        val \in [1..n -> NodeValues]}

\* a record with records below it has a children array
WellFormed(f) ==
    \A i \in DOMAIN f.lv : KidsOf(f.lv, i) # <<>> => f.arr[i]

\* the deepest closure of createByAxisModel, over record identities
RECURSIVE deepest(_, _)
deepest(heap, cats) ==
    IF cats = <<>> THEN <<>>
    ELSE LET category == heap[Head(cats)]
         IN  (IF ~IsSome(category.children)
              THEN <<Head(cats)>>
              ELSE deepest(heap, Get(category.children)))
             \o deepest(heap, Tail(cats))

\* deepestRawValue.forEach((v, i) => v.index = i)
stampIndex(heap, list) ==
    [id \in DOMAIN heap |->
        IF \E i \in 1..Len(list) : list[i] = id
        THEN [heap[id] EXCEPT !.index =
                 Num(CHOOSE i \in 0..(Len(list) - 1) :
                        /\ list[i + 1] = id
                        /\ \A j \in 0..(Len(list) - 1) : list[j + 1] = id => j <= i)]
        ELSE heap[id]]

\* a Node before its constructor body has run
BlankNode ==
    [children |-> None, parent |-> None, level |-> 0, value |-> Undefined,
     leafIndex |-> NaN]

\* Node.isLeaf, on the children field
isLeafChildren(children) == ~IsSome(children) \/ Len(Get(children)) = 0

\* new Node(tree, rawValue, level): tree is [nodes, leafNodes]; the result is
\* the tree afterwards and the identity of the new Node
RECURSIVE newNode(_, _, _, _)
RECURSIVE newChildren(_, _, _, _)
newNode(tree, heap, rawId, level) ==
    LET rawValue == heap[rawId]
        id == Len(tree.nodes) + 1
        allocated == [tree EXCEPT !.nodes = Append(@, BlankNode)]
        made == IF IsSome(rawValue.children)
                THEN newChildren(allocated, heap, Get(rawValue.children), level + 1)
                ELSE [tree |-> allocated, ids |-> <<>>]
        children == IF IsSome(rawValue.children) THEN Some(made.ids) ELSE None
        adopted == [n \in DOMAIN made.tree.nodes |->
                       IF \E k \in 1..Len(made.ids) : made.ids[k] = n
                       THEN [made.tree.nodes[n] EXCEPT !.parent = Some(id)]
                       ELSE made.tree.nodes[n]]
        node == [children |-> children,
                 parent |-> None,
                 level |-> level,
                 value |-> rawValue.value,
                 leafIndex |-> IF isNumber(rawValue.index) THEN rawValue.index ELSE NaN]
    IN  [nodes |-> [adopted EXCEPT ![id] = node],
         leafNodes |-> IF isLeafChildren(children)
                       THEN Append(made.tree.leafNodes, id)
                       ELSE made.tree.leafNodes,
         id |-> id]

\* rawValue.children.map(c => new Node(tree, c, level))
newChildren(tree, heap, kids, level) ==
    IF kids = <<>> THEN [tree |-> tree, ids |-> <<>>]
    ELSE LET first == newNode(tree, heap, Head(kids), level)
             rest == newChildren([nodes |-> first.nodes, leafNodes |-> first.leafNodes],
                                 heap, Tail(kids), level)
         IN  [tree |-> rest.tree, ids |-> <<first.id>> \o rest.ids]

\* Node.isLeaf
isLeaf(n) == isLeafChildren(nodes[n].children)

\* Node.firstChild: this.children && this.children[0]
firstChild(n) ==
    IF IsSome(nodes[n].children) /\ Len(Get(nodes[n].children)) > 0
    THEN Some(Get(nodes[n].children)[1]) ELSE None

\* Node.lastChild: this.children && this.children[this.children.length - 1]
lastChild(n) ==
    IF IsSome(nodes[n].children) /\ Len(Get(nodes[n].children)) > 0
    THEN Some(Get(nodes[n].children)[Len(Get(nodes[n].children))]) ELSE None

\* Node.firstLeafChild
RECURSIVE firstLeafChild(_)
firstLeafChild(n) ==
    IF isLeaf(n) THEN Some(n)
    ELSE IF IsSome(firstChild(n)) THEN firstLeafChild(Get(firstChild(n))) ELSE None

\* Node.lastLeafChild
RECURSIVE lastLeafChild(_)
lastLeafChild(n) ==
    IF isLeaf(n) THEN Some(n)
    ELSE IF IsSome(lastChild(n)) THEN lastLeafChild(Get(lastChild(n))) ELSE None

\* Node.startExtent
RECURSIVE startExtent(_)
startExtent(n) ==
    IF isLeaf(n) THEN nodes[n].leafIndex
    ELSE IF IsSome(firstChild(n)) THEN startExtent(Get(firstChild(n))) ELSE Undefined

\* Node.lastExtent
RECURSIVE lastExtent(_)
lastExtent(n) ==
    IF isLeaf(n) THEN nodes[n].leafIndex
    ELSE IF IsSome(lastChild(n)) THEN lastExtent(Get(lastChild(n))) ELSE Undefined

\* Node.getExtent
getExtent(n) ==
    IF ~IsSome(nodes[n].children)
    THEN <<nodes[n].leafIndex, nodes[n].leafIndex>>
    ELSE <<startExtent(n), lastExtent(n)>>

\* Node.getMaxDepth
RECURSIVE getMaxDepth(_)
getMaxDepth(n) ==
    IF isLeaf(n) THEN Num(nodes[n].level)
    ELSE IF IsSome(firstChild(n)) THEN getMaxDepth(Get(firstChild(n))) ELSE Undefined

\* Tree.getDepth: this.rootNodes[0]?.getMaxDepth() ?? 0
getDepth ==
    IF Len(rootNodes) > 0 /\ getMaxDepth(rootNodes[1]) # Undefined
    THEN getMaxDepth(rootNodes[1]) ELSE Num(0)

\* Tree.getLeafByIndex that counts positions from 1
getLeafByIndexOneBased(index) ==
    IF index.kind = "number" /\ index.v >= 1 /\ index.v <= Len(leafNodes)
    THEN Some(leafNodes[index.v]) ELSE None

\* Tree.getLeafByIndex: this.leafNodes[index]
getLeafByIndex(index) ==
    IF index.kind = "number" /\ index.v >= 0 /\ index.v < Len(leafNodes)
    THEN Some(leafNodes[index.v + 1]) ELSE None

\* Tree.lastLeafChild
treeLastLeafChild ==
    IF Len(rootNodes) > 0 THEN lastLeafChild(rootNodes[Len(rootNodes)]) ELSE None

\* createByAxisModel is entered with option.data a nested description
InitHierarchy ==
    /\ \E n \in 0..MaxNodes : \E f \in RawForests(n) :
          /\ WellFormed(f)
          /\ raw = [i \in 1..n |->
                      [value |-> f.val[i],
                       children |-> IF f.arr[i] THEN Some(KidsOf(f.lv, i)) ELSE None,
                       index |-> Undefined]]
          /\ data = KidsOf(f.lv, 0)
    /\ deepestRawValue = <<>>
    /\ nodes = <<>>
    /\ rootNodes = <<>>
    /\ leafNodes = <<>>
    /\ pc = "deepest"
    /\ categories = <<>>
    /\ hierarchyCategories = None
    /\ _needCollect = FALSE
    /\ _deduplication = FALSE
    /\ _map = None
    /\ uidBase = 0
    /\ uid = 0
    /\ initial = <<>>
    /\ twin = [categories |-> <<>>, _map |-> None, ret |-> Undefined]
    /\ NoCalls

\* const deepestRawValue = deepest(data); deepestRawValue.forEach(...)
Deepest ==
    /\ pc = "deepest"
    /\ deepestRawValue' = deepest(raw, data)
    /\ raw' = stampIndex(raw, deepest(raw, data))
    /\ pc' = "appendChild"
    /\ UNCHANGED <<registryVars, callVars, twinVars, data, nodes, rootNodes, leafNodes,
                   otherVars>>

\* one round of data.forEach(v => hierarchyCategories.appendChild(v))
AppendChild ==
    /\ pc = "appendChild"
    /\ Len(rootNodes) < Len(data)
    /\ LET made == newNode([nodes |-> nodes, leafNodes |-> leafNodes], raw,
                           data[Len(rootNodes) + 1], 0)
       IN  /\ nodes' = made.nodes
           /\ leafNodes' = made.leafNodes
           /\ rootNodes' = Append(rootNodes, made.id)
    /\ UNCHANGED <<registryVars, pc, callVars, twinVars, raw, data, deepestRawValue,
                   otherVars>>

\* return new OrdinalMeta({categories: deepestRawValue.map(v => v.value), ...});
\* needCollect is !categories, and categories = map(data, getName) is an array
NewOrdinalMeta ==
    /\ pc = "appendChild"
    /\ Len(rootNodes) = Len(data)
    /\ \E dedplication \in {Undefined, False} :
          LET o == OrdinalMeta(
                      [categories |-> [i \in 1..Len(deepestRawValue) |->
                                          raw[deepestRawValue[i]].value],
                       needCollect |-> FALSE,
                       deduplication |-> dedplication # False,
                       hierarchyCategories |-> Some("tree")], uidBase)
          IN  /\ categories' = o.categories
              /\ hierarchyCategories' = o.hierarchyCategories
              /\ _needCollect' = o._needCollect
              /\ _deduplication' = o._deduplication
              /\ _map' = o._map
              /\ uidBase' = o.uidBase
              /\ uid' = o.uid
              /\ initial' = o.categories
              /\ twin' = [categories |-> o.categories, _map |-> o._map, ret |-> Undefined]
    /\ pc' = "ready"
    /\ UNCHANGED <<call, ret, mapBuiltAt, log, extra, treeVars, otherVars>>

NextHierarchy ==
    \/ Deepest
    \/ AppendChild
    \/ NewOrdinalMeta
    \/ \E c \in Inputs : GetOrdinal(c)
    \/ \E c \in Inputs : ParseAndCollect(c)

SpecHierarchy == InitHierarchy /\ [][NextHierarchy]_vars

(***************************************************************************)
(* Calls on the tree: traversal and the structural queries of Tree.        *)
(***************************************************************************)
RECURSIVE nodeAccept(_, _)
RECURSIVE acceptEach(_, _)

\* list.forEach(c => c.accept(visitor, depthFirst)): the Nodes in the order
\* in which the visitor is called on them
acceptEach(list, depthFirst) ==
    IF list = <<>> THEN <<>>
    ELSE nodeAccept(Head(list), depthFirst) \o acceptEach(Tail(list), depthFirst)

\* Node.accept that forgets the visitor call on a Node with children when
\* the children go first
nodeAcceptForgets(n, depthFirst) ==
    IF depthFirst
    THEN IF IsSome(nodes[n].children)
         THEN acceptEach(Get(nodes[n].children), depthFirst)
         ELSE <<n>>
    ELSE <<n>> \o (IF IsSome(nodes[n].children)
                   THEN acceptEach(Get(nodes[n].children), depthFirst)
                   ELSE <<>>)

\* Node.accept that calls the visitor first in both orders
nodeAcceptAlwaysFirst(n, depthFirst) ==
    <<n>> \o (IF IsSome(nodes[n].children)
              THEN acceptEach(Get(nodes[n].children), depthFirst)
              ELSE <<>>)

\* Node.accept
nodeAccept(n, depthFirst) ==
    IF depthFirst
    THEN (IF IsSome(nodes[n].children)
          THEN acceptEach(Get(nodes[n].children), depthFirst)
          ELSE <<>>) \o <<n>>
    ELSE <<n>> \o (IF IsSome(nodes[n].children)
                   THEN acceptEach(Get(nodes[n].children), depthFirst)
                   ELSE <<>>)

\* Tree.accept
treeAccept(depthFirst) == acceptEach(rootNodes, depthFirst)

\* the tree is complete: data.forEach(v => hierarchyCategories.appendChild(v))
\* has finished
TreeReady == pc # "deepest" /\ Len(rootNodes) = Len(data)

\* indices handed to getLeafByIndex
LeafIndices == {Num(i) : i \in (-1)..MaxNodes} \cup {Frac(0), NaN}

\* a call of Tree.accept(visitor, depthFirst) with a visitor that records its argument
Accept(depthFirst) ==
    /\ TreeReady
    /\ treeCall' = [op |-> "accept", arg |-> depthFirst, ret |-> treeAccept(depthFirst)]
    /\ UNCHANGED <<registryVars, pc, callVars, twinVars, treeVars, registries>>

\* a call of Tree.getLeafByIndex(index)
GetLeafByIndex(index) ==
    /\ TreeReady
    /\ treeCall' = [op |-> "getLeafByIndex", arg |-> index, ret |-> getLeafByIndex(index)]
    /\ UNCHANGED <<registryVars, pc, callVars, twinVars, treeVars, registries>>

\* a call of Tree.lastLeafChild()
LastLeafChild ==
    /\ TreeReady
    /\ treeCall' = [op |-> "lastLeafChild", arg |-> Undefined, ret |-> treeLastLeafChild]
    /\ UNCHANGED <<registryVars, pc, callVars, twinVars, treeVars, registries>>

\* a call of Tree.getDepth()
GetDepth ==
    /\ TreeReady
    /\ treeCall' = [op |-> "getDepth", arg |-> Undefined, ret |-> getDepth]
    /\ UNCHANGED <<registryVars, pc, callVars, twinVars, treeVars, registries>>

NextTree ==
    \/ Deepest
    \/ AppendChild
    \/ \E depthFirst \in BOOLEAN : Accept(depthFirst)
    \/ \E index \in LeafIndices : GetLeafByIndex(index)
    \/ LastLeafChild
    \/ GetDepth

SpecTree == InitHierarchy /\ [][NextTree]_vars

(***************************************************************************)
(* A process that constructs several registries and calls them in any      *)
(* order; uidBase is shared by all of them.                                *)
(***************************************************************************)
\* category values and arguments used by such a process
ManyValues == {Str(0), Str(1)}

\* no registry has been constructed yet
InitMany ==
    /\ uidBase = 0
    /\ categories = <<>>
    /\ hierarchyCategories = None
    /\ _needCollect = FALSE
    /\ _deduplication = FALSE
    /\ _map = None
    /\ uid = 0
    /\ initial = <<>>
    /\ twin = [categories |-> <<>>, _map |-> None, ret |-> Undefined]
    /\ pc = "ready"
    /\ NoCalls
    /\ NoTree

\* new OrdinalMeta(opt)
Construct(opt) ==
    /\ Len(registries) < MaxRegistries
    /\ LET o == OrdinalMeta(opt, uidBase)
       IN  /\ uidBase' = o.uidBase
           /\ registries' = Append(registries,
                 [categories |-> o.categories,
                  hierarchyCategories |-> o.hierarchyCategories,
                  _needCollect |-> o._needCollect,
                  _deduplication |-> o._deduplication,
                  _map |-> o._map,
                  uid |-> o.uid])
    /\ UNCHANGED <<categories, hierarchyCategories, _needCollect, _deduplication,
                   _map, uid, pc, callVars, twinVars, treeVars, treeCall>>

\* registries[k] after a method call left out behind
CalledOn(k, out) ==
    /\ registries' = [registries EXCEPT ![k].categories = out.categories,
                                        ![k]._map = out._map]
    /\ UNCHANGED <<registryVars, pc, callVars, twinVars, treeVars, treeCall>>

\* a call of getOrdinal(category) on the k-th registry
GetOrdinalOn(k, category) ==
    CalledOn(k, getOrdinal(registries[k], category))

\* a call of parseAndCollect(category) on the k-th registry
ParseAndCollectOn(k, category) ==
    /\ Len(parseAndCollect(registries[k], category).categories) <= MaxLen
    /\ CalledOn(k, parseAndCollect(registries[k], category))

NextMany ==
    \/ \E cats \in SeqsUpTo(ManyValues, 1), nc \in BOOLEAN, dd \in BOOLEAN :
          Construct([categories |-> cats, needCollect |-> nc,
                     deduplication |-> dd, hierarchyCategories |-> None])
    \/ \E k \in 1..Len(registries), c \in ManyValues : GetOrdinalOn(k, c)
    \/ \E k \in 1..Len(registries), c \in ManyValues : ParseAndCollectOn(k, c)

SpecMany == InitMany /\ [][NextMany]_vars

(***************************************************************************)
(* Properties of the registry                                              *)
(***************************************************************************)
\* the 0-based indices at which x occurs in arr
IndicesOf(arr, x) == {i \in 0..(Len(arr) - 1) : arr[i + 1] = x}
LowestIndex(arr, x) == CHOOSE i \in IndicesOf(arr, x) : \A j \in IndicesOf(arr, x) : i <= j
HighestIndex(arr, x) == CHOOSE i \in IndicesOf(arr, x) : \A j \in IndicesOf(arr, x) : j <= i

\* any two collecting calls with the same value returned the same ordinal
SameValueSameOrdinal ==
    \A j, k \in 1..Len(log) : log[j].arg = log[k].arg => log[j].ret = log[k].ret

\* C1 as stated: with needCollect and deduplication set and any initial list,
\* calls with the same value return the same ordinal, and it is the lowest
\* index at which the value occurs in categories.
C1_Original ==
    (_needCollect /\ _deduplication) =>
        /\ SameValueSameOrdinal
        /\ \A k \in 1..Len(log) :
              /\ IndicesOf(categories, log[k].arg) # {}
              /\ log[k].ret = Num(LowestIndex(categories, log[k].arg))

\* C1 amended: calls with the same value return the same ordinal; it is the
\* lowest index at which the value occurs in categories when the value occurs
\* at most once in the initial list, and the highest index at which it occurs
\* in the initial list when it is repeated there.
C1_Amended ==
    (_needCollect /\ _deduplication) =>
        /\ SameValueSameOrdinal
        /\ \A k \in 1..Len(log) :
              /\ IndicesOf(categories, log[k].arg) # {}
              /\ log[k].ret =
                    IF Cardinality(IndicesOf(initial, log[k].arg)) <= 1
                    THEN Num(LowestIndex(categories, log[k].arg))
                    ELSE Num(HighestIndex(initial, log[k].arg))

\* a value not in a non-empty initial list was collected, then another value,
\* then the first one again
C1_Witness ==
    /\ _needCollect /\ _deduplication
    /\ Len(initial) > 0
    /\ Len(log) >= 3
    /\ log[1].arg \notin Range(initial)
    /\ log[2].arg # log[1].arg
    /\ log[3].arg = log[1].arg
    /\ log[3].ret = Num(Len(initial))

\* C2: with needCollect set, deduplication clear and an empty initial list,
\* the k-th parseAndCollect call returns k-1, whatever its input and whatever
\* getOrdinal calls are interleaved, and categories is the sequence of inputs.
C2_Theorem ==
    (_needCollect /\ ~_deduplication /\ initial = <<>>) =>
        /\ \A k \in 1..Len(log) : log[k].ret = Num(k - 1)
        /\ categories = [k \in 1..Len(log) |-> log[k].arg]

\* three calls, the first two with the same input, a getOrdinal call in between
C2_Witness ==
    /\ _needCollect /\ ~_deduplication /\ initial = <<>>
    /\ Len(log) >= 3
    /\ log[1].arg = log[2].arg
    /\ log[3].ret = Num(2)
    /\ IsSome(mapBuiltAt) /\ Get(mapBuiltAt) = 1

\* C3 as stated: an extra getOrdinal call leaves categories unchanged and
\* changes the result of no later call: the registry and its twin, which got
\* the same calls and one getOrdinal more, agree on categories and on what
\* the last common call returned.
C3_Original ==
    /\ twin.categories = categories
    /\ twin.ret = ret

\* once the map is built, every value appended after that is a key of it
AppendedAreKeys ==
    IsSome(_map) =>
        \A i \in Get(mapBuiltAt)..(Len(categories) - 1) :
            categories[i + 1] \in DOMAIN Get(_map)

\* every entry of the map points at its own value
EntriesPointBack ==
    IsSome(_map) =>
        \A x \in DOMAIN Get(_map) : At(categories, Get(_map)[x]) = x

\* C4 as stated: for any flags, once the map is built every value appended
\* to categories afterwards is a key of the map, and every entry (v -> i)
\* has categories[i] = v.
C4_Original == AppendedAreKeys /\ EntriesPointBack

\* C4 amended: every entry (v -> i) of the built map has categories[i] = v
\* for any flags; every value appended after the map was built is a key of
\* the map unless the registry appends without deduplication (needCollect
\* set, deduplication clear).
C4_Amended ==
    /\ ~isAppendOnly(this) => AppendedAreKeys
    /\ EntriesPointBack

\* the map was built from a non-empty list and two values were appended since
C4_Witness ==
    /\ _deduplication
    /\ IsSome(_map)
    /\ Get(mapBuiltAt) > 0
    /\ Len(categories) >= Get(mapBuiltAt) + 2
    /\ call.op = "getOrdinal" /\ ret = Num(Len(categories) - 1)

\* C5 as stated: with needCollect set and deduplication clear, parseAndCollect
\* leaves the map untouched, and getOrdinal of a value that is in categories
\* but was not in the initial list returns undefined, whether or not
\* getOrdinal had been called before the value was appended.
C5_Original ==
    [][(_needCollect /\ ~_deduplication) =>
          /\ call'.op = "parseAndCollect" => _map' = _map
          /\ (/\ call'.op = "getOrdinal"
              /\ call'.arg \notin Range(initial)
              /\ call'.arg \in Range(categories')) => ret' = Undefined]_vars

\* C5 amended: with needCollect set and deduplication clear, parseAndCollect
\* leaves the map untouched; getOrdinal of a value that is in categories but
\* was not in the initial list returns undefined when every occurrence of the
\* value was appended after the map was built (getOrdinal had been called
\* before), and otherwise returns an index at which categories holds the value.
C5_Amended ==
    [][(_needCollect /\ ~_deduplication) =>
          /\ call'.op = "parseAndCollect" => _map' = _map
          /\ (/\ call'.op = "getOrdinal"
              /\ call'.arg \notin Range(initial)
              /\ call'.arg \in Range(categories')) =>
                 IF \A i \in IndicesOf(categories', call'.arg) : i >= Get(mapBuiltAt')
                 THEN ret' = Undefined
                 ELSE ret'.kind = "number" /\ At(categories', ret'.v) = call'.arg]_vars

\* getOrdinal was called, then a new value was appended, then looked up
C5_Witness ==
    /\ _needCollect /\ ~_deduplication
    /\ call.op = "getOrdinal"
    /\ call.arg \notin Range(initial)
    /\ call.arg \in Range(categories)
    /\ ret = Undefined
    /\ _map = Some(createHashMap(initial))

\* C6: with needCollect clear, parseAndCollect of a number returns the number
\* itself, leaves categories as it is and neither builds nor changes the map.
C6_Theorem ==
    [][(~_needCollect /\ call'.op = "parseAndCollect" /\ ~isString(call'.arg)) =>
          /\ ret' = call'.arg
          /\ categories' = categories
          /\ _map' = _map]_vars

\* a non-integer number went through a registry with a non-empty list whose
\* map was never built
C6_Witness ==
    /\ ~_needCollect
    /\ Len(categories) > 0
    /\ call = [op |-> "parseAndCollect", arg |-> Frac(0)]
    /\ ret = Frac(0)
    /\ _map = None

\* C7: with needCollect clear, categories never grows; parseAndCollect of a
\* string that is not in categories returns NaN, and of a string that is in
\* categories returns an index at which categories holds that string.
C7_Theorem ==
    ~_needCollect =>
        /\ categories = initial
        /\ (call.op = "parseAndCollect" /\ isString(call.arg)) =>
              IF call.arg \in Range(categories)
              THEN ret.kind = "number" /\ At(categories, ret.v) = call.arg
              ELSE ret = NaN

\* a string missing from a non-empty list was looked up
C7_Witness ==
    /\ ~_needCollect
    /\ Len(categories) > 0
    /\ call.op = "parseAndCollect" /\ isString(call.arg)
    /\ call.arg \notin Range(categories)
    /\ ret = NaN

\* a string in the list was looked up
C7_WitnessFound ==
    /\ ~_needCollect
    /\ call.op = "parseAndCollect" /\ isString(call.arg)
    /\ ret = Num(1)

(***************************************************************************)
(* Properties of the category tree                                         *)
(***************************************************************************)
\* createByAxisModel has returned a registry with a tree
Built == pc = "ready" /\ IsSome(hierarchyCategories)

\* the leaves of the nested description: children absent or an empty array
RawLeaves == {i \in DOMAIN raw : isLeafChildren(raw[i].children)}

\* C8 as stated: a tree built from a nested description whose records have
\* children absent or any array, an empty one included, with L leaves has
\* leafNodes of length L and leafNodes[i].leafIndex = i for every i below L.
C8_Original ==
    Built =>
        /\ Len(leafNodes) = Cardinality(RawLeaves)
        /\ \A i \in 0..(Cardinality(RawLeaves) - 1) :
              /\ IsSome(getLeafByIndex(Num(i)))
              /\ nodes[Get(getLeafByIndex(Num(i)))].leafIndex = Num(i)

\* the values of the leaves are pairwise different
DistinctLeafValues ==
    \A i, j \in 1..Len(leafNodes) :
        nodes[leafNodes[i]].value = nodes[leafNodes[j]].value => i = j

\* C9 as stated: for a registry built by the hierarchical path, categories is
\* as long as leafNodes, categories[i] is the value of getLeafByIndex(i), and
\* with distinct leaf values the ordinal of a leaf's value is its leafIndex.
C9_Original ==
    Built =>
        /\ Len(categories) = Len(leafNodes)
        /\ \A i \in 0..(Len(leafNodes) - 1) :
              At(categories, i) = nodes[Get(getLeafByIndex(Num(i)))].value
        /\ DistinctLeafValues =>
              \A i \in 1..Len(leafNodes) :
                 getOrdinal(this, nodes[leafNodes[i]].value).ret
                    = nodes[leafNodes[i]].leafIndex

\* the leafIndex of an optional Node, undefined when there is none
leafIndexOf(o) == IF IsSome(o) THEN nodes[Get(o)].leafIndex ELSE Undefined

\* C10 as stated: in a built tree the extent of an internal node is
\* [firstLeafChild().leafIndex, lastLeafChild().leafIndex], of a leaf
\* [leafIndex, leafIndex], and of the root of a one-root tree with L leaves
\* [0, L-1].
C10_Original ==
    Built =>
        /\ \A n \in DOMAIN nodes :
              getExtent(n) = IF isLeaf(n)
                             THEN <<nodes[n].leafIndex, nodes[n].leafIndex>>
                             ELSE <<leafIndexOf(firstLeafChild(n)),
                                    leafIndexOf(lastLeafChild(n))>>
        /\ Len(rootNodes) = 1 =>
              getExtent(rootNodes[1]) = <<Num(0), Num(Len(leafNodes) - 1)>>

\* the number of visitor calls on Node n during the last accept
Visits(n) == Cardinality({i \in 1..Len(treeCall.ret) : treeCall.ret[i] = n})

\* C11: Tree.accept calls the visitor on every Node of the forest exactly
\* once, in both orders, and the set of visited Nodes is the same in both.
C11_Theorem ==
    treeCall.op = "accept" =>
        /\ \A n \in DOMAIN nodes : Visits(n) = 1
        /\ Range(treeCall.ret) = DOMAIN nodes
        /\ Range(treeCall.ret) = Range(treeAccept(~treeCall.arg))

\* children were visited first in a forest of two roots, one with a child
C11_Witness ==
    /\ treeCall.op = "accept"
    /\ treeCall.arg = TRUE
    /\ Len(rootNodes) >= 2
    /\ \E n \in DOMAIN nodes : ~isLeaf(n)
    /\ Len(treeCall.ret) = Len(nodes)

\* the Nodes of the subtree of n, n included
RECURSIVE Subtree(_)
Subtree(n) ==
    {n} \cup (IF IsSome(nodes[n].children)
              THEN UNION {Subtree(Get(nodes[n].children)[k]) :
                             k \in 1..Len(Get(nodes[n].children))}
              ELSE {})

\* the position of the visitor call on Node n during the last accept
VisitPos(n) == CHOOSE i \in 1..Len(treeCall.ret) : treeCall.ret[i] = n

\* every subtree of list[i] is visited as a whole before anything of list[j], i < j
LeftToRight(list) ==
    \A i, j \in 1..Len(list) :
        i < j => \A a \in Subtree(list[i]) : \A b \in Subtree(list[j]) :
                     VisitPos(a) < VisitPos(b)

\* C14: Tree.getLeafByIndex(i) returns leafNodes[i] for 0 <= i < L and absent
\* for any other i; on an empty forest Tree.lastLeafChild() returns absent
\* and Tree.getDepth() returns 0.
C14_Theorem ==
    /\ treeCall.op = "getLeafByIndex" =>
          IF /\ treeCall.arg.kind = "number"
             /\ 0 <= treeCall.arg.v
             /\ treeCall.arg.v < Len(leafNodes)
          THEN treeCall.ret = Some(leafNodes[treeCall.arg.v + 1])
          ELSE treeCall.ret = None
    /\ (treeCall.op = "lastLeafChild" /\ rootNodes = <<>>) => treeCall.ret = None
    /\ (treeCall.op = "getDepth" /\ rootNodes = <<>>) => treeCall.ret = Num(0)

\* the index just past the last leaf of a tree with two leaves was asked for
C14_Witness ==
    /\ treeCall.op = "getLeafByIndex"
    /\ Len(leafNodes) = 2
    /\ treeCall.arg = Num(2)
    /\ treeCall.ret = None

\* lastLeafChild was called on an empty forest
C14_WitnessEmpty ==
    /\ treeCall.op = "lastLeafChild"
    /\ rootNodes = <<>>
    /\ TreeReady
    /\ treeCall.ret = None

\* C15: with depthFirst false every Node is visited before all of its
\* descendants, with depthFirst true after all of them; in both orders the
\* whole subtree of a child is visited before anything of its next sibling,
\* and the whole subtree of a root before anything of the next root.
C15_Theorem ==
    treeCall.op = "accept" =>
        /\ \A n \in DOMAIN nodes : \A d \in Subtree(n) \ {n} :
              IF treeCall.arg THEN VisitPos(d) < VisitPos(n)
                              ELSE VisitPos(n) < VisitPos(d)
        /\ \A n \in DOMAIN nodes :
              IsSome(nodes[n].children) => LeftToRight(Get(nodes[n].children))
        /\ LeftToRight(rootNodes)

\* children were visited first in a forest of two roots, the first of which
\* has two children
C15_Witness ==
    /\ treeCall.op = "accept"
    /\ treeCall.arg = TRUE
    /\ Len(rootNodes) = 2
    /\ IsSome(nodes[rootNodes[1]].children)
    /\ Len(Get(nodes[rootNodes[1]].children)) = 2
    /\ treeCall.ret[Len(treeCall.ret)] = rootNodes[2]

(***************************************************************************)
(* Properties of a process with several registries                         *)
(***************************************************************************)
\* uids are pairwise distinct and increase in creation order
UidsIncrease ==
    \A i, j \in 1..Len(registries) :
        /\ i # j => registries[i].uid # registries[j].uid
        /\ i < j => registries[i].uid < registries[j].uid

\* C12: across any interleaving of constructions and calls on several
\* registries, a construction increments the counter exactly once and gives
\* the new registry the new count; uids are pairwise distinct and increase in
\* creation order; no other operation changes the counter or any uid.
C12_Theorem ==
    [][/\ UidsIncrease'
       /\ Len(registries') = Len(registries) + 1 =>
             /\ uidBase' = uidBase + 1
             /\ registries'[Len(registries')].uid = uidBase'
       /\ Len(registries') = Len(registries) => uidBase' = uidBase
       /\ \A k \in 1..Len(registries) : registries'[k].uid = registries[k].uid]_vars

\* two registries, both called: the first has built its map, the second has
\* collected a value
C12_Witness ==
    /\ Len(registries) = 2
    /\ IsSome(registries[1]._map)
    /\ Len(registries[2].categories) = 2
    /\ registries[2].uid = 2
    /\ uidBase = 2

\* the leaf Nodes of the tree
Leaves == {l \in DOMAIN nodes : isLeaf(l)}

\* the lists of sibling Nodes: the roots and every children array
SiblingLists ==
    {rootNodes} \cup {Get(nodes[n].children) : n \in {m \in DOMAIN nodes : IsSome(nodes[m].children)}}

\* C18 as stated: in a built tree, for every Node n with getExtent() = [s, e]
\* the leaves whose leafIndex lies in s..e are exactly the leaf descendants of
\* n (n itself when it is a leaf); s <= e; the extents of siblings are
\* disjoint and increase left to right; a child's extent lies within its
\* parent's.
C18_Original ==
    Built =>
        /\ \A n \in DOMAIN nodes :
              LET s == getExtent(n)[1]
                  e == getExtent(n)[2]
              IN  /\ s.kind = "number" /\ e.kind = "number"
                  /\ s.v <= e.v
                  /\ {l \in Leaves : /\ nodes[l].leafIndex.kind = "number"
                                     /\ nodes[l].leafIndex.v \in s.v..e.v}
                        = Subtree(n) \cap Leaves
                  /\ IsSome(nodes[n].parent) =>
                        /\ getExtent(Get(nodes[n].parent))[1].kind = "number"
                        /\ getExtent(Get(nodes[n].parent))[2].kind = "number"
                        /\ getExtent(Get(nodes[n].parent))[1].v <= s.v
                        /\ e.v <= getExtent(Get(nodes[n].parent))[2].v
        /\ \A list \in SiblingLists : \A i, j \in 1..Len(list) :
              i < j => getExtent(list[i])[2].v < getExtent(list[j])[1].v

(***************************************************************************)
(* Further properties of the registry                                      *)
(***************************************************************************)
\* C13: categories only grows by appending at the end: over every step the
\* old list is a prefix of the new one and the length grows by at most 1, so
\* an index that holds a value keeps holding it.
C13_Theorem ==
    [][/\ Len(categories') \in {Len(categories), Len(categories) + 1}
       /\ \A i \in 1..Len(categories) : categories'[i] = categories[i]]_vars

\* a registry that started with two categories has collected two more
C13_Witness ==
    /\ Len(initial) = 2
    /\ Len(categories) = 4
    /\ call.op = "parseAndCollect"
    /\ ret = Num(3)

\* the step is a call that reaches the lookup of parseAndCollect or getOrdinal
ReachesLookup ==
    \/ call'.op = "getOrdinal"
    \/ /\ call'.op = "parseAndCollect"
       /\ ~isPassThrough(this, call'.arg)
       /\ ~isAppendOnly(this)

\* C16: the map stays unbuilt until the first getOrdinal call or the first
\* parseAndCollect call that reaches the lookup (the pass-through and the
\* append-only path never build it); it is then built from the categories of
\* that moment; once built it is never rebuilt, not even when it is empty:
\* getOrdinal and the paths without lookup leave it as it is, and a
\* collecting lookup only adds the appended value.
C16_Theorem ==
    [][(vars' # vars) =>
          /\ ReachesLookup => IsSome(_map')
          /\ ~ReachesLookup => _map' = _map
          /\ (~IsSome(_map) /\ IsSome(_map')) =>
                /\ mapBuiltAt' = Some(Len(categories))
                /\ \A x \in Range(categories) :
                      /\ x \in DOMAIN Get(_map')
                      /\ Get(_map')[x] = createHashMap(categories)[x]
                /\ DOMAIN Get(_map') = Range(categories')
          /\ IsSome(_map) =>
                /\ IsSome(_map')
                /\ \A x \in DOMAIN Get(_map) :
                      x \in DOMAIN Get(_map') /\ Get(_map')[x] = Get(_map)[x]
                /\ categories' = categories => _map' = _map
                /\ DOMAIN Get(_map') \subseteq DOMAIN Get(_map) \cup {call'.arg}]_vars

\* the map was built from an empty list, a value was appended without
\* lookup, and a later getOrdinal of that value found the map still empty
C16_Witness ==
    /\ _map = Some(<<>>)
    /\ mapBuiltAt = Some(0)
    /\ Len(categories) > 0
    /\ call.op = "getOrdinal"
    /\ call.arg \in Range(categories)
    /\ ret = Undefined

\* C17: with needCollect set, whatever the deduplication flag and the initial
\* list, every parseAndCollect(v) so far returned an integer i with
\* 0 <= i < length of categories and categories[i] = v, and this stays so.
C17_Theorem ==
    _needCollect =>
        \A k \in 1..Len(log) :
            /\ log[k].ret.kind = "number"
            /\ 0 <= log[k].ret.v
            /\ log[k].ret.v < Len(categories)
            /\ At(categories, log[k].ret.v) = log[k].arg

\* a number was collected, looked up by getOrdinal and collected again
C17_Witness ==
    /\ _needCollect /\ _deduplication
    /\ Len(initial) > 0
    /\ Len(log) >= 2
    /\ log[1].arg = Num(5)
    /\ log[1].ret = Num(Len(initial))
    /\ log[Len(log)] = log[1]
    /\ call.op = "parseAndCollect"

\* no value occurs twice in arr
NoRepeat(arr) == \A i, j \in 1..Len(arr) : arr[i] = arr[j] => i = j

\* C19: with needCollect and deduplication set and no repeated value in the
\* initial list, categories never holds a repeated value, and a
\* parseAndCollect call appends only a value that is not yet present.
C19_Theorem ==
    [][(_needCollect /\ _deduplication /\ NoRepeat(initial)) =>
          /\ NoRepeat(categories')
          /\ Len(categories') > Len(categories) =>
                /\ call'.op = "parseAndCollect"
                /\ call'.arg \notin Range(categories)
                /\ categories' = Append(categories, call'.arg)]_vars

\* a value of the initial list and a collected value were both passed again
C19_Witness ==
    /\ _needCollect /\ _deduplication
    /\ Len(initial) = 2 /\ NoRepeat(initial)
    /\ Len(log) >= 3
    /\ log[1].arg \notin Range(initial)
    /\ log[2].arg = log[1].arg
    /\ log[3].arg \in Range(initial)
    /\ Len(categories) = 3

====
